---- MODULE Spec2Model ----
(***************************************************************************)
(* Model of the EtherCAT library code of linuxcnc-ethercat                 *)
(* (src/src/lcec_ethercat.c): the sync-manager descriptor builder          *)
(* (the lcec_syncs functions), the configuration channel (lcec_read_sdo,   *)
(* lcec_write_sdo and its wrappers, lcec_read_idn), the FSoE process image *)
(* relay (copy_fsoe_data) and the slave registry (lcec_slave_by_index).    *)
(*                                                                         *)
(* Each component has its own specification over the shared variables:     *)
(*   Spec        the descriptor builder                                    *)
(*   SpecSdo     the configuration channel                                 *)
(*   SpecWidth   the fixed-width write helpers on values of every shape    *)
(*   SpecFsoe    the process image relay                                   *)
(*   SpecSlaves  the slave registry                                        *)
(***************************************************************************)
EXTENDS Integers, Sequences, FiniteSets, TLC

\* A C NULL pointer; a non-NULL pointer into a table is the slot's position.
NULL == 0 - 1

(***************************************************************************)
(* Bounds of the model.                                                    *)
(***************************************************************************)
\* Capacities of the three descriptor tables (LCEC_MAX_SYNC_COUNT,
\* LCEC_MAX_PDO_INFO_COUNT, LCEC_MAX_PDO_ENTRY_COUNT of lcec.h, scaled down).
MaxSyncCount == 2
MaxPdoInfoCount == 2
MaxPdoEntryCount == 3

\* Arguments the device setup code passes to the builder.
Directions == {2}                    \* EC_DIR_INPUT
WatchdogModes == {1}                 \* EC_WD_ENABLE
PdoIndexes == {5632, 6656}           \* 0x1600, 0x1a00
PdoEntries == {<<28672, 1, 8>>, <<24576, 2, 16>>}   \* (index, subindex, bit_length)

VARIABLES
  \* lcec_syncs_t
  sync_count, curr_sync, syncs,
  pdo_info_count, curr_pdo_info, pdo_infos,
  pdo_entry_count, curr_pdo_entry, pdo_entries,
  \* the outcome of undefined behaviour in the builder: "none" while every
  \* access so far was inside the tables and through a non-NULL cursor
  fault,
  \* history of the calls made since the last lcec_syncs_init
  tree, calls, contract, last,
  \* configuration channel: the slave being configured, the device's live object
  \* dictionary, the slave's persistent configuration record, and what the last
  \* call did: the transport calls it made, its return value, its diagnostics
  slave, od, sdo_config, xfer, ret, msgs,
  \* history: the last configuration-channel call, its arguments, what the
  \* transport was going to answer, and the state it started from
  op,
  \* process image relay: master->process_data, the slave's FSoE configuration
  \* and its two mapped offsets (NULL when not mapped)
  pd, fsoeConf, fsoe_slave_offset, fsoe_master_offset,
  \* history: the last copy_fsoe_data call, the image before it and between its
  \* two copies, and the number of calls made
  cp,
  \* slave registry: master->first_slave as the list of slaves in attachment
  \* order, and the result of the last lookup
  first_slave, found,
  \* history: the index last looked up and the list before the lookup
  lookup

syncsVars == <<sync_count, curr_sync, syncs, pdo_info_count, curr_pdo_info, pdo_infos,
               pdo_entry_count, curr_pdo_entry, pdo_entries, fault>>
histVars == <<tree, calls, contract, last>>

sdoVars == <<slave, od, sdo_config, xfer, ret, msgs, op>>

fsoeVars == <<pd, fsoeConf, fsoe_slave_offset, fsoe_master_offset, cp>>
regVars == <<first_slave, found, lookup>>

vars == <<syncsVars, histVars, sdoVars, fsoeVars, regVars>>

\* What the steps of one component leave alone.
nonSyncsVars == <<sdoVars, fsoeVars, regVars>>
nonSdoVars == <<syncsVars, histVars, fsoeVars, regVars>>
nonFsoeVars == <<syncsVars, histVars, sdoVars, regVars>>
nonRegVars == <<syncsVars, histVars, sdoVars, fsoeVars>>

(***************************************************************************)
(* Descriptor builder: lcec_syncs_t and the lcec_syncs functions.          *)
(***************************************************************************)
\* The sentinel index lcec_syncs_add_sync writes one slot past the last sync manager.
SyncSentinel == 255

\* A slot of each table after memset(.., 0, ..).
ZeroSync == [index |-> 0, dir |-> 0, watchdog_mode |-> 0, n_pdos |-> 0, pdos |-> NULL]
ZeroPdoInfo == [index |-> 0, n_entries |-> 0, entries |-> NULL]
ZeroPdoEntry == [index |-> 0, subindex |-> 0, bit_length |-> 0]

\* syncs has one slot more than the capacity, for the sentinel.
SyncSlots == 0 .. MaxSyncCount
PdoInfoSlots == 0 .. (MaxPdoInfoCount - 1)
PdoEntrySlots == 0 .. (MaxPdoEntryCount - 1)

\* History: the pre-state counts of the call that was made last.
LastCall(name) ==
  [op |-> name, sync_count |-> sync_count, pdo_info_count |-> pdo_info_count,
   pdo_entry_count |-> pdo_entry_count, curr_sync |-> curr_sync,
   curr_pdo_info |-> curr_pdo_info,
   n_entries |-> IF curr_pdo_info \in PdoInfoSlots THEN pdo_infos[curr_pdo_info].n_entries ELSE 0]

\* History: the descriptor set as the nested sequence the calls describe. A call
\* outside the nesting contract (a PDO with no sync manager, an entry with no PDO
\* of the current sync manager) adds nothing to it.
TreeAddSync(t, dir, wd) == Append(t, [dir |-> dir, watchdog_mode |-> wd, pdos |-> <<>>])

TreeAddPdo(t, index) ==
  IF Len(t) = 0 THEN t
  ELSE [t EXCEPT ![Len(t)].pdos = Append(@, [index |-> index, entries |-> <<>>])]

TreeAddEntry(t, e) ==
  IF Len(t) = 0 \/ Len(t[Len(t)].pdos) = 0 THEN t
  ELSE [t EXCEPT ![Len(t)].pdos[Len(t[Len(t)].pdos)].entries = Append(@, e)]

InContractPdo == Len(tree) > 0
InContractEntry == Len(tree) > 0 /\ Len(tree[Len(tree)].pdos) > 0

\* lcec_syncs_init zeroing the counts and leaving the tables and cursors.
lcec_syncs_init_counts_only ==
  /\ fault = "none"
  /\ sync_count' = 0
  /\ pdo_info_count' = 0
  /\ pdo_entry_count' = 0
  /\ UNCHANGED <<curr_sync, syncs, curr_pdo_info, pdo_infos, curr_pdo_entry, pdo_entries>>
  /\ fault' = "none"
  /\ tree' = <<>>
  /\ calls' = [sync |-> 0, pdo |-> 0, entry |-> 0]
  /\ contract' = TRUE
  /\ last' = LastCall("init")

\* void lcec_syncs_init(lcec_syncs_t *syncs); like every call, it is made while
\* the behaviour of the program is still defined.
lcec_syncs_init ==
  /\ fault = "none"
  /\ sync_count' = 0
  /\ curr_sync' = NULL
  /\ syncs' = [i \in SyncSlots |-> ZeroSync]
  /\ pdo_info_count' = 0
  /\ curr_pdo_info' = NULL
  /\ pdo_infos' = [i \in PdoInfoSlots |-> ZeroPdoInfo]
  /\ pdo_entry_count' = 0
  /\ curr_pdo_entry' = NULL
  /\ pdo_entries' = [i \in PdoEntrySlots |-> ZeroPdoEntry]
  /\ fault' = "none"
  /\ tree' = <<>>
  /\ calls' = [sync |-> 0, pdo |-> 0, entry |-> 0]
  /\ contract' = TRUE
  /\ last' = LastCall("init")

\* lcec_syncs_add_sync clearing the current-PDO cursor.
lcec_syncs_add_sync_clear_pdo(dir, watchdog_mode) ==
  /\ fault = "none"
  /\ curr_sync' = sync_count
  /\ curr_pdo_info' = NULL
  /\ syncs' = [syncs EXCEPT ![sync_count].index = sync_count % 256,
                            ![sync_count].dir = dir,
                            ![sync_count].watchdog_mode = watchdog_mode,
                            ![IF sync_count < MaxSyncCount THEN sync_count + 1
                              ELSE sync_count].index =
                               IF sync_count < MaxSyncCount THEN SyncSentinel ELSE @]
  /\ sync_count' = sync_count + 1
  /\ fault' = IF sync_count < MaxSyncCount THEN "none" ELSE "out_of_bounds"
  /\ UNCHANGED <<pdo_info_count, pdo_infos, pdo_entry_count, curr_pdo_entry, pdo_entries>>
  /\ tree' = TreeAddSync(tree, dir, watchdog_mode)
  /\ calls' = [calls EXCEPT !.sync = @ + 1]
  /\ contract' = contract
  /\ last' = LastCall("add_sync")

\* lcec_syncs_add_sync without the write of the sentinel.
lcec_syncs_add_sync_no_sentinel(dir, watchdog_mode) ==
  /\ fault = "none"
  /\ curr_sync' = sync_count
  /\ syncs' = [syncs EXCEPT ![sync_count].index = sync_count % 256,
                            ![sync_count].dir = dir,
                            ![sync_count].watchdog_mode = watchdog_mode]
  /\ sync_count' = sync_count + 1
  /\ fault' = IF sync_count < MaxSyncCount THEN "none" ELSE "out_of_bounds"
  /\ UNCHANGED <<pdo_info_count, curr_pdo_info, pdo_infos,
                 pdo_entry_count, curr_pdo_entry, pdo_entries>>
  /\ tree' = TreeAddSync(tree, dir, watchdog_mode)
  /\ calls' = [calls EXCEPT !.sync = @ + 1]
  /\ contract' = contract
  /\ last' = LastCall("add_sync")

\* void lcec_syncs_add_sync(lcec_syncs_t *syncs, ec_direction_t dir, ec_watchdog_mode_t watchdog_mode)
lcec_syncs_add_sync(dir, watchdog_mode) ==
  /\ fault = "none"
  /\ curr_sync' = sync_count
  /\ IF sync_count < MaxSyncCount
       THEN /\ syncs' = [syncs EXCEPT ![sync_count].index = sync_count % 256,
                                      ![sync_count].dir = dir,
                                      ![sync_count].watchdog_mode = watchdog_mode,
                                      ![sync_count + 1].index = SyncSentinel]
            /\ sync_count' = sync_count + 1
            /\ fault' = "none"
       ELSE \* the table is full: the sentinel is written past the end of syncs[]
            /\ syncs' = [syncs EXCEPT ![sync_count].index = sync_count % 256,
                                      ![sync_count].dir = dir,
                                      ![sync_count].watchdog_mode = watchdog_mode]
            /\ sync_count' = sync_count + 1
            /\ fault' = "out_of_bounds"
  /\ UNCHANGED <<pdo_info_count, curr_pdo_info, pdo_infos,
                 pdo_entry_count, curr_pdo_entry, pdo_entries>>
  /\ tree' = TreeAddSync(tree, dir, watchdog_mode)
  /\ calls' = [calls EXCEPT !.sync = @ + 1]
  /\ contract' = contract
  /\ last' = LastCall("add_sync")

\* lcec_syncs_add_pdo_info setting the sync manager's head on every call, not
\* only on its first PDO.
lcec_syncs_add_pdo_info_rehead(index) ==
  /\ fault = "none"
  /\ curr_pdo_info' = pdo_info_count
  /\ IF curr_sync = NULL
       THEN /\ fault' = "null_deref"
            /\ UNCHANGED <<syncs, pdo_infos, pdo_info_count>>
       ELSE IF pdo_info_count >= MaxPdoInfoCount
       THEN /\ fault' = "out_of_bounds"
            /\ syncs' = [syncs EXCEPT ![curr_sync].pdos = pdo_info_count,
                                      ![curr_sync].n_pdos = @ + 1]
            /\ pdo_info_count' = pdo_info_count + 1
            /\ UNCHANGED pdo_infos
       ELSE /\ fault' = "none"
            /\ syncs' = [syncs EXCEPT ![curr_sync].pdos = pdo_info_count,
                                      ![curr_sync].n_pdos = @ + 1]
            /\ pdo_infos' = [pdo_infos EXCEPT ![pdo_info_count].index = index % 65536]
            /\ pdo_info_count' = pdo_info_count + 1
  /\ UNCHANGED <<sync_count, curr_sync, pdo_entry_count, curr_pdo_entry, pdo_entries>>
  /\ tree' = TreeAddPdo(tree, index)
  /\ calls' = [calls EXCEPT !.pdo = @ + 1]
  /\ contract' = (contract /\ InContractPdo)
  /\ last' = LastCall("add_pdo_info")

\* void lcec_syncs_add_pdo_info(lcec_syncs_t *syncs, uint16_t index)
lcec_syncs_add_pdo_info(index) ==
  /\ fault = "none"
  /\ curr_pdo_info' = pdo_info_count
  /\ IF curr_sync = NULL
       THEN \* syncs->curr_sync->pdos dereferences NULL
            /\ fault' = "null_deref"
            /\ UNCHANGED <<syncs, pdo_infos, pdo_info_count>>
       ELSE IF pdo_info_count >= MaxPdoInfoCount
       THEN \* curr_pdo_info points past the end of pdo_infos[]
            /\ fault' = "out_of_bounds"
            /\ syncs' = [syncs EXCEPT
                 ![curr_sync].pdos = IF @ = NULL THEN pdo_info_count ELSE @,
                 ![curr_sync].n_pdos = @ + 1]
            /\ pdo_info_count' = pdo_info_count + 1
            /\ UNCHANGED pdo_infos
       ELSE /\ fault' = "none"
            /\ syncs' = [syncs EXCEPT
                 ![curr_sync].pdos = IF @ = NULL THEN pdo_info_count ELSE @,
                 ![curr_sync].n_pdos = @ + 1]
            /\ pdo_infos' = [pdo_infos EXCEPT ![pdo_info_count].index = index % 65536]
            /\ pdo_info_count' = pdo_info_count + 1
  /\ UNCHANGED <<sync_count, curr_sync, pdo_entry_count, curr_pdo_entry, pdo_entries>>
  /\ tree' = TreeAddPdo(tree, index)
  /\ calls' = [calls EXCEPT !.pdo = @ + 1]
  /\ contract' = (contract /\ InContractPdo)
  /\ last' = LastCall("add_pdo_info")

\* lcec_syncs_add_pdo_entry setting the PDO's head on every call, not only on
\* the first entry.
lcec_syncs_add_pdo_entry_rehead(index, subindex, bit_length) ==
  /\ fault = "none"
  /\ curr_pdo_entry' = pdo_entry_count
  /\ IF curr_pdo_info = NULL
       THEN /\ fault' = "null_deref"
            /\ UNCHANGED <<pdo_infos, pdo_entries, pdo_entry_count>>
       ELSE IF pdo_entry_count >= MaxPdoEntryCount
       THEN /\ fault' = "out_of_bounds"
            /\ pdo_infos' = [pdo_infos EXCEPT
                 ![curr_pdo_info].entries = pdo_entry_count,
                 ![curr_pdo_info].n_entries = @ + 1]
            /\ pdo_entry_count' = pdo_entry_count + 1
            /\ UNCHANGED pdo_entries
       ELSE /\ fault' = "none"
            /\ pdo_infos' = [pdo_infos EXCEPT
                 ![curr_pdo_info].entries = pdo_entry_count,
                 ![curr_pdo_info].n_entries = @ + 1]
            /\ pdo_entries' = [pdo_entries EXCEPT
                 ![pdo_entry_count] = [index |-> index % 65536,
                                       subindex |-> subindex % 256,
                                       bit_length |-> bit_length % 256]]
            /\ pdo_entry_count' = pdo_entry_count + 1
  /\ UNCHANGED <<sync_count, curr_sync, syncs, pdo_info_count, curr_pdo_info>>
  /\ tree' = TreeAddEntry(tree, <<index, subindex, bit_length>>)
  /\ calls' = [calls EXCEPT !.entry = @ + 1]
  /\ contract' = (contract /\ InContractEntry)
  /\ last' = LastCall("add_pdo_entry")

\* void lcec_syncs_add_pdo_entry(lcec_syncs_t *syncs, uint16_t index, uint8_t subindex, uint8_t bit_length)
lcec_syncs_add_pdo_entry(index, subindex, bit_length) ==
  /\ fault = "none"
  /\ curr_pdo_entry' = pdo_entry_count
  /\ IF curr_pdo_info = NULL
       THEN \* syncs->curr_pdo_info->entries dereferences NULL
            /\ fault' = "null_deref"
            /\ UNCHANGED <<pdo_infos, pdo_entries, pdo_entry_count>>
       ELSE IF pdo_entry_count >= MaxPdoEntryCount
       THEN \* curr_pdo_entry points past the end of pdo_entries[]
            /\ fault' = "out_of_bounds"
            /\ pdo_infos' = [pdo_infos EXCEPT
                 ![curr_pdo_info].entries = IF @ = NULL THEN pdo_entry_count ELSE @,
                 ![curr_pdo_info].n_entries = @ + 1]
            /\ pdo_entry_count' = pdo_entry_count + 1
            /\ UNCHANGED pdo_entries
       ELSE /\ fault' = "none"
            /\ pdo_infos' = [pdo_infos EXCEPT
                 ![curr_pdo_info].entries = IF @ = NULL THEN pdo_entry_count ELSE @,
                 ![curr_pdo_info].n_entries = @ + 1]
            /\ pdo_entries' = [pdo_entries EXCEPT
                 ![pdo_entry_count] = [index |-> index % 65536,
                                       subindex |-> subindex % 256,
                                       bit_length |-> bit_length % 256]]
            /\ pdo_entry_count' = pdo_entry_count + 1
  /\ UNCHANGED <<sync_count, curr_sync, syncs, pdo_info_count, curr_pdo_info>>
  /\ tree' = TreeAddEntry(tree, <<index, subindex, bit_length>>)
  /\ calls' = [calls EXCEPT !.entry = @ + 1]
  /\ contract' = (contract /\ InContractEntry)
  /\ last' = LastCall("add_pdo_entry")

\* The builder after lcec_syncs_init, "must be called before first use".
SyncsInit ==
  /\ sync_count = 0
  /\ curr_sync = NULL
  /\ syncs = [i \in SyncSlots |-> ZeroSync]
  /\ pdo_info_count = 0
  /\ curr_pdo_info = NULL
  /\ pdo_infos = [i \in PdoInfoSlots |-> ZeroPdoInfo]
  /\ pdo_entry_count = 0
  /\ curr_pdo_entry = NULL
  /\ pdo_entries = [i \in PdoEntrySlots |-> ZeroPdoEntry]
  /\ fault = "none"
  /\ tree = <<>>
  /\ calls = [sync |-> 0, pdo |-> 0, entry |-> 0]
  /\ contract = TRUE
  /\ last = [op |-> "init", sync_count |-> 0, pdo_info_count |-> 0,
             pdo_entry_count |-> 0, curr_sync |-> NULL, curr_pdo_info |-> NULL,
             n_entries |-> 0]

DoInit == lcec_syncs_init /\ UNCHANGED nonSyncsVars
DoAddSync ==
  \E d \in Directions, w \in WatchdogModes :
    lcec_syncs_add_sync(d, w) /\ UNCHANGED nonSyncsVars
DoAddPdoInfo == \E i \in PdoIndexes : lcec_syncs_add_pdo_info(i) /\ UNCHANGED nonSyncsVars
DoAddPdoEntry ==
  \E e \in PdoEntries : lcec_syncs_add_pdo_entry(e[1], e[2], e[3]) /\ UNCHANGED nonSyncsVars


(***************************************************************************)
(* Claims on the descriptor builder.                                       *)
(***************************************************************************)
\* The PDOs the calls describe, in call order, over all sync managers.
RECURSIVE FlatPdos(_)
FlatPdos(t) == IF Len(t) = 0 THEN <<>> ELSE t[1].pdos \o FlatPdos(Tail(t))

\* The entry run of the PDO at position p of the flat PDO table: the triples at
\* positions head .. head + n_entries - 1 of the flat entry table.
EntryRunInTable(p) ==
  /\ pdo_infos[p].entries = NULL => pdo_infos[p].n_entries = 0
  /\ pdo_infos[p].entries # NULL =>
       /\ pdo_infos[p].entries >= 0
       /\ pdo_infos[p].entries + pdo_infos[p].n_entries <= MaxPdoEntryCount
EntryRun(p) ==
  IF pdo_infos[p].entries = NULL THEN <<>>
  ELSE [i \in 1 .. pdo_infos[p].n_entries |->
          <<pdo_entries[pdo_infos[p].entries + i - 1].index,
            pdo_entries[pdo_infos[p].entries + i - 1].subindex,
            pdo_entries[pdo_infos[p].entries + i - 1].bit_length>>]

\* C4: after calls that respect the nesting contract, the entry count is the
\* number of Add-PDO-Entry calls and each PDO's run of the flat entry table is
\* the entries added while it was current, in call order; one sync manager
\* with one PDO and two entries gives counts 1, 1, 2, head 0 and n_entries 2.
C4_EntryRuns ==
  (contract /\ fault = "none") =>
    /\ pdo_entry_count = calls.entry
    /\ pdo_info_count = Len(FlatPdos(tree))
    /\ \A k \in 1 .. Len(FlatPdos(tree)) :
         /\ EntryRunInTable(k - 1)
         /\ EntryRun(k - 1) = FlatPdos(tree)[k].entries
    /\ calls = [sync |-> 1, pdo |-> 1, entry |-> 2] =>
         /\ sync_count = 1
         /\ pdo_info_count = 1
         /\ pdo_entry_count = 2
         /\ pdo_infos[0].entries = 0
         /\ pdo_infos[0].n_entries = 2

\* Two PDOs, the first with two entries and the second with one.
C4_Witness ==
  /\ contract
  /\ fault = "none"
  /\ pdo_info_count = 2
  /\ pdo_infos[0].n_entries = 2
  /\ pdo_infos[1].n_entries = 1
  /\ pdo_infos[1].entries = 2
  /\ pdo_entries[0] # pdo_entries[1]

\* C5: an Add-Sync-Manager call on a table below capacity raises the count by
\* one, gives the new sync manager the count before the call as its index (the
\* k-th added after Reset has index k-1), makes it current, and writes the
\* sentinel index 0xff into the slot at the new count.
C5_AddSync ==
  /\ (last.op = "add_sync" /\ last.sync_count < MaxSyncCount) =>
       /\ sync_count = last.sync_count + 1
       /\ curr_sync = last.sync_count
       /\ syncs[last.sync_count].index = last.sync_count
       /\ syncs[sync_count].index = SyncSentinel
       /\ fault = "none"
  /\ fault = "none" =>
       /\ sync_count = calls.sync
       /\ \A k \in 1 .. calls.sync : syncs[k - 1].index = k - 1

\* The second sync manager has just been added.
C5_Witness ==
  /\ last.op = "add_sync"
  /\ last.sync_count = 1
  /\ sync_count = 2
  /\ syncs[1].index = 1
  /\ syncs[2].index = SyncSentinel

\* The builder as lcec_syncs_init leaves it.
SyncsZeroed ==
  /\ sync_count = 0
  /\ pdo_info_count = 0
  /\ pdo_entry_count = 0
  /\ curr_sync = NULL
  /\ curr_pdo_info = NULL
  /\ curr_pdo_entry = NULL
  /\ \A k \in SyncSlots : syncs[k] = ZeroSync
  /\ \A k \in PdoInfoSlots : pdo_infos[k] = ZeroPdoInfo
  /\ \A k \in PdoEntrySlots : pdo_entries[k] = ZeroPdoEntry

\* C11: Reset after any calls zeroes the three tables, the three counts and
\* the cursors, so that what is built after it depends on the calls made since
\* it alone: the counts are the numbers of calls since Reset and every slot
\* past a count is still zeroed (but for the sentinel index).
C11_ResetZeroes ==
  /\ last.op = "init" => SyncsZeroed
  /\ fault = "none" =>
       /\ sync_count = calls.sync
       /\ pdo_info_count = calls.pdo
       /\ pdo_entry_count = calls.entry
       /\ \A k \in SyncSlots :
            k >= sync_count =>
              syncs[k] = [ZeroSync EXCEPT !.index = IF k = sync_count /\ k > 0
                                                      THEN SyncSentinel ELSE 0]
       /\ \A k \in PdoInfoSlots : k >= pdo_info_count => pdo_infos[k] = ZeroPdoInfo
       /\ \A k \in PdoEntrySlots : k >= pdo_entry_count => pdo_entries[k] = ZeroPdoEntry
       /\ sync_count = 0 => curr_sync = NULL
       /\ pdo_info_count = 0 => curr_pdo_info = NULL
       /\ pdo_entry_count = 0 => curr_pdo_entry = NULL

\* Reset of a builder that held two sync managers, a PDO and two entries.
C11_Witness ==
  /\ last.op = "init"
  /\ last.sync_count = 2
  /\ last.pdo_info_count >= 1
  /\ last.pdo_entry_count >= 2
  /\ SyncsZeroed

\* C12: in every state, Reset included, the slot at position sync_count holds
\* the sentinel index 0xff and no slot below it does, so a scan for the
\* sentinel stops after exactly sync_count sync managers.
C12_SentinelMatchesCount ==
  fault = "none" =>
    /\ syncs[sync_count].index = SyncSentinel
    /\ \A k \in 0 .. (sync_count - 1) : syncs[k].index # SyncSentinel

\* The PDO run of the sync manager at position s: the PDO indexes at positions
\* head .. head + n_pdos - 1 of the flat PDO table.
PdoRunInTable(s) ==
  /\ syncs[s].pdos = NULL => syncs[s].n_pdos = 0
  /\ syncs[s].pdos # NULL =>
       /\ syncs[s].pdos >= 0
       /\ syncs[s].pdos + syncs[s].n_pdos <= MaxPdoInfoCount
PdoRun(s) ==
  IF syncs[s].pdos = NULL THEN <<>>
  ELSE [i \in 1 .. syncs[s].n_pdos |-> pdo_infos[syncs[s].pdos + i - 1].index]
PdoOwners(p) ==
  {s \in 0 .. (sync_count - 1) :
     /\ syncs[s].pdos # NULL
     /\ syncs[s].pdos <= p
     /\ p < syncs[s].pdos + syncs[s].n_pdos}
EntryOwners(e) ==
  {p \in 0 .. (pdo_info_count - 1) :
     /\ pdo_infos[p].entries # NULL
     /\ pdo_infos[p].entries <= e
     /\ e < pdo_infos[p].entries + pdo_infos[p].n_entries}

\* C13: after calls that respect the nesting contract, each sync manager's run
\* of the flat PDO table is the PDOs added while it was current, in call
\* order; every PDO lies in the run of exactly one sync manager and every
\* entry in the run of exactly one PDO, so the runs are pairwise disjoint.
C13_PdoRuns ==
  (contract /\ fault = "none") =>
    /\ sync_count = Len(tree)
    /\ pdo_info_count = calls.pdo
    /\ \A s \in 1 .. Len(tree) :
         /\ PdoRunInTable(s - 1)
         /\ PdoRun(s - 1) = [i \in 1 .. Len(tree[s].pdos) |-> tree[s].pdos[i].index]
    /\ \A p \in 0 .. (pdo_info_count - 1) : Cardinality(PdoOwners(p)) = 1
    /\ \A e \in 0 .. (pdo_entry_count - 1) : Cardinality(EntryOwners(e)) = 1

\* Two sync managers with one PDO each, both PDOs with entries.
C13_Witness ==
  /\ contract
  /\ fault = "none"
  /\ sync_count = 2
  /\ syncs[0].n_pdos = 1
  /\ syncs[1].n_pdos = 1
  /\ syncs[1].pdos = 1
  /\ pdo_infos[0].index # pdo_infos[1].index
  /\ pdo_infos[0].n_entries = 1
  /\ pdo_infos[1].n_entries = 2

\* What a call may change in a sync manager, PDO or entry that was there
\* before it: Add-PDO the run length of the current sync manager, and its head
\* when this is its first PDO; Add-PDO-Entry the same of the current PDO.
SyncKept(k) ==
  \/ syncs'[k] = syncs[k]
  \/ /\ last'.op = "add_pdo_info"
     /\ k = curr_sync
     /\ syncs'[k] = [syncs[k] EXCEPT !.n_pdos = @ + 1,
                                     !.pdos = IF @ = NULL THEN pdo_info_count ELSE @]
PdoInfoKept(k) ==
  \/ pdo_infos'[k] = pdo_infos[k]
  \/ /\ last'.op = "add_pdo_entry"
     /\ k = curr_pdo_info
     /\ pdo_infos'[k] = [pdo_infos[k] EXCEPT !.n_entries = @ + 1,
                                             !.entries = IF @ = NULL THEN pdo_entry_count ELSE @]
AppendOnlyStep ==
  (last'.op # "init" /\ fault' = "none") =>
    /\ \A k \in 0 .. (sync_count - 1) : SyncKept(k)
    /\ \A k \in 0 .. (pdo_info_count - 1) : PdoInfoKept(k)
    /\ \A k \in 0 .. (pdo_entry_count - 1) : pdo_entries'[k] = pdo_entries[k]
    /\ sync_count' >= sync_count
    /\ pdo_info_count' >= pdo_info_count
    /\ pdo_entry_count' >= pdo_entry_count
    /\ last'.op = "add_pdo_info" =>
         /\ sync_count' = sync_count
         /\ pdo_entry_count' = pdo_entry_count
    /\ last'.op = "add_pdo_entry" =>
         /\ sync_count' = sync_count
         /\ pdo_info_count' = pdo_info_count

\* C14: between two Resets every Add-Sync-Manager, Add-PDO and Add-PDO-Entry
\* call leaves every sync manager, PDO and entry added before it unchanged,
\* except the run length (and, on the first child, the head) of the current
\* container; Add-PDO leaves the sync-manager and entry counts unchanged and
\* Add-PDO-Entry the sync-manager and PDO counts.
C14_AppendOnly == [][AppendOnlyStep]_vars

\* A third entry was appended to the second PDO, after the first PDO and its
\* entry.
C14_Witness ==
  /\ fault = "none"
  /\ last.op = "add_pdo_entry"
  /\ last.pdo_entry_count = 2
  /\ curr_pdo_info = 1
  /\ pdo_infos[0].n_entries = 1
  /\ pdo_infos[1].n_entries = 2
  /\ pdo_infos[1].entries = 1

\* The last call misused the builder: Add-PDO with no sync manager, Add-PDO-
\* Entry with no PDO, or an addition to a table already at capacity.
Misused ==
  \/ last.op = "add_sync" /\ last.sync_count >= MaxSyncCount
  \/ last.op = "add_pdo_info" /\ (last.sync_count = 0 \/ last.pdo_info_count >= MaxPdoInfoCount)
  \/ last.op = "add_pdo_entry" /\ (last.pdo_info_count = 0 \/ last.pdo_entry_count >= MaxPdoEntryCount)

\* C15: a misuse of the builder ends in a detected error: the call neither
\* dereferences a NULL cursor nor writes outside a table, and it leaves the
\* counts, the cursors and the contents of the tables as they were.
C15_MisuseDetected ==
  Misused =>
    /\ fault \notin {"null_deref", "out_of_bounds"}
    /\ sync_count = last.sync_count
    /\ pdo_info_count = last.pdo_info_count
    /\ pdo_entry_count = last.pdo_entry_count
    /\ curr_sync = last.curr_sync
    /\ curr_pdo_info = last.curr_pdo_info
    /\ curr_pdo_info \in PdoInfoSlots => pdo_infos[curr_pdo_info].n_entries = last.n_entries

\* The last call was an Add-PDO-Entry made while the current sync manager had
\* no PDO yet and an earlier one had.
EntryAfterNewSync ==
  /\ last.op = "add_pdo_entry"
  /\ fault = "none"
  /\ curr_sync # NULL
  /\ syncs[curr_sync].n_pdos = 0
  /\ last.curr_pdo_info # NULL

MaxReadSize == 3
MaxCalls == 2

\* The slaves a call can be made on: position index, name, configuration handle.
Slaves == {[index |-> 0, name |-> "D1", config |-> "sc0"],
           [index |-> 3, name |-> "D2", config |-> "sc3"]}

\* The objects the setup code addresses: (index, subindex). 0x8000:01, 0x8010:02
SdoAddrs == {<<32768, 1>>, <<32784, 2>>}
\* Drive parameters: (drive_no, idn). S-0-0032 of drive 0, P-0-0010 of drive 1
IdnAddrs == {<<0, 32>>, <<1, 32778>>}

\* Values the setup code writes.
Values8 == {165, 255}                           \* 0xa5, 0xff
Values16 == {4660, 65280}                       \* 0x1234, 0xff00
Values32 == {305419896, 2130706432}             \* 0x12345678, 0x7f000000
RawBuffers == {<<1, 2, 3>>}
ModParamNames == {"invert", "scale"}

\* What the transport can answer: 0, -EIO, -ETIMEDOUT; registration: 0, -ENOMEM.
TransportErrs == {0, 0 - 5, 0 - 110}
ConfigErrs == {0, 0 - 12}

\* The device's objects before any write, and an empty configuration record.
InitOd == [a \in SdoAddrs |-> <<0>>]
InitSdoConfig == [a \in SdoAddrs |-> <<>>]

\* Fieldbus byte order (EC_WRITE_U8/U16/U32 of ecrt.h): little-endian.
EC_WRITE_U8(value) == <<value % 256>>
EC_WRITE_U16(value) == <<value % 256, (value \div 256) % 256>>
EC_WRITE_U32(value) ==
  <<value % 256, (value \div 256) % 256, (value \div 65536) % 256, (value \div 16777216) % 256>>

\* The value a buffer holds in the fieldbus byte order (EC_READ_U8/U16/U32).
RECURSIVE EC_READ(_)
EC_READ(data) == IF Len(data) = 0 THEN 0 ELSE data[1] + 256 * EC_READ(Tail(data))

\* download(slave-position, index, sub-index, buffer, size) -> error: the device
\* takes the value when the transport reports no error.
ecrt_master_sdo_download(dict, index, subindex, data, size, err) ==
  IF err = 0 /\ <<index, subindex>> \in DOMAIN dict
    THEN [dict EXCEPT ![<<index, subindex>>] = SubSeq(data, 1, size)]
    ELSE dict

\* register-persistent-parameter(slave-config-handle, index, sub-index, buffer, size) -> error
ecrt_slave_config_sdo(cfg, index, subindex, data, size, err) ==
  IF err = 0 /\ <<index, subindex>> \in DOMAIN cfg
    THEN [cfg EXCEPT ![<<index, subindex>>] = SubSeq(data, 1, size)]
    ELSE cfg

\* The transport calls as a call records them in xfer.
Upload(slv, index, subindex, size) ==
  [fn |-> "ecrt_master_sdo_upload", slave |-> slv.index, index |-> index,
   subindex |-> subindex, size |-> size]
ReadIdn(slv, drive_no, idn, size) ==
  [fn |-> "ecrt_master_read_idn", slave |-> slv.index, drive_no |-> drive_no,
   idn |-> idn, size |-> size]
Download(slv, index, subindex, data, size) ==
  [fn |-> "ecrt_master_sdo_download", slave |-> slv.index, index |-> index,
   subindex |-> subindex, data |-> data, size |-> size]
ConfigSdo(slv, index, subindex, data, size) ==
  [fn |-> "ecrt_slave_config_sdo", slave |-> slv.config, index |-> index,
   subindex |-> subindex, data |-> data, size |-> size]

\* lcec_read_sdo accepting a read longer than asked for.
lcec_read_sdo_long_ok(slv, st, index, subindex, size, env) ==
  LET x == <<Upload(slv, index, subindex, size)>> IN
  IF env.err # 0 \/ env.result_size < size
    THEN [ret |-> 0 - 1, od |-> st.od, sdo_config |-> st.sdo_config, xfer |-> x,
          msgs |-> <<"Failed to execute SDO upload">>]
    ELSE [ret |-> 0, od |-> st.od, sdo_config |-> st.sdo_config, xfer |-> x, msgs |-> <<>>]

\* lcec_read_sdo asking a second time when the transport timed out.
lcec_read_sdo_retry(slv, st, index, subindex, size, env) ==
  LET x == <<Upload(slv, index, subindex, size)>> IN
  IF env.err = 0 - 110
    THEN [ret |-> 0 - 1, od |-> st.od, sdo_config |-> st.sdo_config, xfer |-> x \o x,
          msgs |-> <<"Failed to execute SDO upload">>]
  ELSE IF env.err # 0 \/ env.result_size # size
    THEN [ret |-> 0 - 1, od |-> st.od, sdo_config |-> st.sdo_config, xfer |-> x,
          msgs |-> <<"Failed to execute SDO upload">>]
  ELSE [ret |-> 0, od |-> st.od, sdo_config |-> st.sdo_config, xfer |-> x, msgs |-> <<>>]

\* int lcec_read_sdo(slave, index, subindex, target, size); env is the transport's
\* answer: err and result_size.
lcec_read_sdo(slv, st, index, subindex, size, env) ==
  LET x == <<Upload(slv, index, subindex, size)>> IN
  IF env.err # 0
    THEN [ret |-> 0 - 1, od |-> st.od, sdo_config |-> st.sdo_config, xfer |-> x,
          msgs |-> <<"Failed to execute SDO upload">>]
  ELSE IF env.result_size # size
    THEN [ret |-> 0 - 1, od |-> st.od, sdo_config |-> st.sdo_config, xfer |-> x,
          msgs |-> <<"Invalid result size on SDO upload">>]
  ELSE [ret |-> 0, od |-> st.od, sdo_config |-> st.sdo_config, xfer |-> x, msgs |-> <<>>]

\* int lcec_read_idn(slave, drive_no, idn, target, size)
lcec_read_idn(slv, st, drive_no, idn, size, env) ==
  LET x == <<ReadIdn(slv, drive_no, idn, size)>> IN
  IF env.err # 0
    THEN [ret |-> 0 - 1, od |-> st.od, sdo_config |-> st.sdo_config, xfer |-> x,
          msgs |-> <<"Failed to execute IDN read">>]
  ELSE IF env.result_size # size
    THEN [ret |-> 0 - 1, od |-> st.od, sdo_config |-> st.sdo_config, xfer |-> x,
          msgs |-> <<"Invalid result size on IDN read">>]
  ELSE [ret |-> 0, od |-> st.od, sdo_config |-> st.sdo_config, xfer |-> x, msgs |-> <<>>]

\* lcec_write_sdo without the return after a failed download.
lcec_write_sdo_no_return(slv, st, index, subindex, value, size, env) ==
  LET dl == <<Download(slv, index, subindex, value, size)>>
      od1 == ecrt_master_sdo_download(st.od, index, subindex, value, size, env.dl)
      cf == <<ConfigSdo(slv, index, subindex, value, size)>>
      sc1 == ecrt_slave_config_sdo(st.sdo_config, index, subindex, value, size, env.cfg)
  IN
  [ret |-> IF env.dl # 0 \/ env.cfg # 0 THEN 0 - 1 ELSE 0,
   od |-> od1, sdo_config |-> sc1, xfer |-> dl \o cf,
   msgs |-> IF env.dl # 0 \/ env.cfg # 0 THEN <<"Failed">> ELSE <<>>]

\* lcec_write_sdo ignoring the result of the registration.
lcec_write_sdo_ignore_config(slv, st, index, subindex, value, size, env) ==
  LET dl == <<Download(slv, index, subindex, value, size)>>
      od1 == ecrt_master_sdo_download(st.od, index, subindex, value, size, env.dl)
      cf == <<ConfigSdo(slv, index, subindex, value, size)>>
      sc1 == ecrt_slave_config_sdo(st.sdo_config, index, subindex, value, size, env.cfg)
  IN
  IF env.dl # 0
    THEN [ret |-> 0 - 1, od |-> od1, sdo_config |-> st.sdo_config, xfer |-> dl,
          msgs |-> <<"Failed to execute SDO download">>]
    ELSE [ret |-> 0, od |-> od1, sdo_config |-> sc1, xfer |-> dl \o cf, msgs |-> <<>>]

\* int lcec_write_sdo(slave, index, subindex, value, size); env is the transport's
\* answer: dl for the download, cfg for the registration.
lcec_write_sdo(slv, st, index, subindex, value, size, env) ==
  LET dl == <<Download(slv, index, subindex, value, size)>>
      od1 == ecrt_master_sdo_download(st.od, index, subindex, value, size, env.dl)
      cf == <<ConfigSdo(slv, index, subindex, value, size)>>
      sc1 == ecrt_slave_config_sdo(st.sdo_config, index, subindex, value, size, env.cfg)
  IN
  IF env.dl # 0
    THEN [ret |-> 0 - 1, od |-> od1, sdo_config |-> st.sdo_config, xfer |-> dl,
          msgs |-> <<"Failed to execute SDO download">>]
  ELSE IF env.cfg # 0
    THEN [ret |-> 0 - 1, od |-> od1, sdo_config |-> sc1, xfer |-> dl \o cf,
          msgs |-> <<"Failed to configure slave SDO">>]
  ELSE [ret |-> 0, od |-> od1, sdo_config |-> sc1, xfer |-> dl \o cf, msgs |-> <<>>]

\* int lcec_write_sdo8(slave, index, subindex, uint8_t value)
lcec_write_sdo8(slv, st, index, subindex, value, env) ==
  lcec_write_sdo(slv, st, index, subindex, EC_WRITE_U8(value), 1, env)

\* lcec_write_sdo16 handing over only the first byte of its buffer.
lcec_write_sdo16_size1(slv, st, index, subindex, value, env) ==
  lcec_write_sdo(slv, st, index, subindex, EC_WRITE_U16(value), 1, env)

\* int lcec_write_sdo16(slave, index, subindex, uint16_t value)
lcec_write_sdo16(slv, st, index, subindex, value, env) ==
  lcec_write_sdo(slv, st, index, subindex, EC_WRITE_U16(value), 2, env)

\* int lcec_write_sdo32(slave, index, subindex, uint32_t value)
lcec_write_sdo32(slv, st, index, subindex, value, env) ==
  lcec_write_sdo(slv, st, index, subindex, EC_WRITE_U32(value), 4, env)

\* The diagnostic of a modParam write that failed.
ModParamMsg(mpname) == <<"Failed to set SDO for <modParam name=", mpname>>

\* int lcec_write_sdo8_modparam(slave, index, subindex, uint8_t value, char *mpname)
lcec_write_sdo8_modparam(slv, st, index, subindex, value, mpname, env) ==
  LET r == lcec_write_sdo8(slv, st, index, subindex, value, env) IN
  IF r.ret < 0
    THEN [r EXCEPT !.ret = 0 - 1, !.msgs = Append(@, ModParamMsg(mpname))]
    ELSE [r EXCEPT !.ret = 0]

\* lcec_write_sdo16_modparam writing through the 8-bit helper.
lcec_write_sdo16_modparam_via8(slv, st, index, subindex, value, mpname, env) ==
  LET r == lcec_write_sdo8(slv, st, index, subindex, value, env) IN
  IF r.ret < 0
    THEN [r EXCEPT !.ret = 0 - 1, !.msgs = Append(@, ModParamMsg(mpname))]
    ELSE [r EXCEPT !.ret = 0]

\* int lcec_write_sdo16_modparam(slave, index, subindex, uint16_t value, char *mpname)
lcec_write_sdo16_modparam(slv, st, index, subindex, value, mpname, env) ==
  LET r == lcec_write_sdo16(slv, st, index, subindex, value, env) IN
  IF r.ret < 0
    THEN [r EXCEPT !.ret = 0 - 1, !.msgs = Append(@, ModParamMsg(mpname))]
    ELSE [r EXCEPT !.ret = 0]

\* int lcec_write_sdo32_modparam(slave, index, subindex, uint32_t value, char *mpname)
lcec_write_sdo32_modparam(slv, st, index, subindex, value, mpname, env) ==
  LET r == lcec_write_sdo32(slv, st, index, subindex, value, env) IN
  IF r.ret < 0
    THEN [r EXCEPT !.ret = 0 - 1, !.msgs = Append(@, ModParamMsg(mpname))]
    ELSE [r EXCEPT !.ret = 0]

\* The state a call starts from, and the step that makes the call.
ChannelState == [od |-> od, sdo_config |-> sdo_config]

Called(name, args, env, r) ==
  /\ op.name = "none"
  /\ op.seq < MaxCalls
  /\ od' = r.od
  /\ sdo_config' = r.sdo_config
  /\ xfer' = r.xfer
  /\ ret' = r.ret
  /\ msgs' = r.msgs
  /\ op' = [name |-> name, args |-> args, env |-> env, pre |-> ChannelState,
            seq |-> op.seq + 1]
  /\ UNCHANGED slave
  /\ UNCHANGED nonSdoVars

ReadEnvs(size) == [err : TransportErrs, result_size : 0 .. (size + 1)]
WriteEnvs == [dl : TransportErrs, cfg : ConfigErrs]

CallReadSdo ==
  \E a \in SdoAddrs, size \in 1 .. MaxReadSize : \E env \in ReadEnvs(size) :
    Called("read_sdo", [index |-> a[1], subindex |-> a[2], size |-> size], env,
           lcec_read_sdo(slave, ChannelState, a[1], a[2], size, env))

CallReadIdn ==
  \E a \in IdnAddrs, size \in 1 .. MaxReadSize : \E env \in ReadEnvs(size) :
    Called("read_idn", [drive_no |-> a[1], idn |-> a[2], size |-> size], env,
           lcec_read_idn(slave, ChannelState, a[1], a[2], size, env))

CallWriteSdo ==
  \E a \in SdoAddrs, b \in RawBuffers, env \in WriteEnvs :
    Called("write_sdo", [index |-> a[1], subindex |-> a[2], value |-> b, size |-> Len(b)], env,
           lcec_write_sdo(slave, ChannelState, a[1], a[2], b, Len(b), env))

CallWriteSdo8(Vals) ==
  \E a \in SdoAddrs, v \in Vals, env \in WriteEnvs :
    Called("write_sdo8", [index |-> a[1], subindex |-> a[2], value |-> v, width |-> 1], env,
           lcec_write_sdo8(slave, ChannelState, a[1], a[2], v, env))

CallWriteSdo16(Vals) ==
  \E a \in SdoAddrs, v \in Vals, env \in WriteEnvs :
    Called("write_sdo16", [index |-> a[1], subindex |-> a[2], value |-> v, width |-> 2], env,
           lcec_write_sdo16(slave, ChannelState, a[1], a[2], v, env))

CallWriteSdo32(Vals) ==
  \E a \in SdoAddrs, v \in Vals, env \in WriteEnvs :
    Called("write_sdo32", [index |-> a[1], subindex |-> a[2], value |-> v, width |-> 4], env,
           lcec_write_sdo32(slave, ChannelState, a[1], a[2], v, env))

CallWriteSdo8Modparam ==
  \E a \in SdoAddrs, v \in Values8, n \in ModParamNames, env \in WriteEnvs :
    Called("write_sdo8_modparam",
           [index |-> a[1], subindex |-> a[2], value |-> v, width |-> 1, mpname |-> n], env,
           lcec_write_sdo8_modparam(slave, ChannelState, a[1], a[2], v, n, env))

CallWriteSdo16Modparam ==
  \E a \in SdoAddrs, v \in Values16, n \in ModParamNames, env \in WriteEnvs :
    Called("write_sdo16_modparam",
           [index |-> a[1], subindex |-> a[2], value |-> v, width |-> 2, mpname |-> n], env,
           lcec_write_sdo16_modparam(slave, ChannelState, a[1], a[2], v, n, env))

CallWriteSdo32Modparam ==
  \E a \in SdoAddrs, v \in Values32, n \in ModParamNames, env \in WriteEnvs :
    Called("write_sdo32_modparam",
           [index |-> a[1], subindex |-> a[2], value |-> v, width |-> 4, mpname |-> n], env,
           lcec_write_sdo32_modparam(slave, ChannelState, a[1], a[2], v, n, env))

\* The call has returned and the setup code goes on to its next call.
Return ==
  /\ op.name # "none"
  /\ op' = [name |-> "none", args |-> <<>>, env |-> <<>>, pre |-> <<>>, seq |-> op.seq]
  /\ xfer' = <<>>
  /\ msgs' = <<>>
  /\ UNCHANGED <<slave, od, sdo_config, ret>>
  /\ UNCHANGED nonSdoVars

\* No call made yet.
NoCall == [name |-> "none", args |-> <<>>, env |-> <<>>, pre |-> <<>>, seq |-> 0]

SdoIdle ==
  /\ od = InitOd
  /\ sdo_config = InitSdoConfig
  /\ xfer = <<>>
  /\ ret = 0
  /\ msgs = <<>>
  /\ op = NoCall

\* Values of each width for the byte-order check (TLC's integers end at 2^31 - 1).
Wide8 == {0, 1, 127, 128, 165, 255}
Wide16 == {0, 1, 255, 256, 4660, 32768, 65280, 65535}
Wide32 == {0, 1, 255, 256, 65536, 16777216, 305419896, 2130706432, 2147483647}

\* One fixed-width write of any of these values, as the first call.
WidthNext ==
  \/ op.seq = 0 /\ CallWriteSdo8(Wide8)
  \/ op.seq = 0 /\ CallWriteSdo16(Wide16)
  \/ op.seq = 0 /\ CallWriteSdo32(Wide32)

SdoInit == slave \in Slaves /\ SdoIdle
SdoNext ==
  \/ CallReadSdo
  \/ CallReadIdn
  \/ CallWriteSdo
  \/ CallWriteSdo8(Values8)
  \/ CallWriteSdo16(Values16)
  \/ CallWriteSdo32(Values32)
  \/ CallWriteSdo8Modparam
  \/ CallWriteSdo16Modparam
  \/ CallWriteSdo32Modparam
  \/ Return

(***************************************************************************)
(* Claims on the configuration channel.                                    *)
(***************************************************************************)
WriteOps == {"write_sdo", "write_sdo8", "write_sdo16", "write_sdo32",
             "write_sdo8_modparam", "write_sdo16_modparam", "write_sdo32_modparam"}
ReadOps == {"read_sdo", "read_idn"}
IsWrite == op.name \in WriteOps
IsRead == op.name \in ReadOps
WrittenAddr == <<op.args.index, op.args.subindex>>
NumCalls(fn) == Cardinality({k \in 1 .. Len(xfer) : xfer[k].fn = fn})

\* C1: in a write, the persistent registration (ecrt_slave_config_sdo) is made
\* only right after the download of the same index, sub-index and value has
\* returned success; when the download fails, no registration is made and the
\* slave's persisted configuration record is what it was before the call.
C1_RegisterOnlyAfterDownload ==
  IsWrite =>
    /\ \A k \in 1 .. Len(xfer) :
         xfer[k].fn = "ecrt_slave_config_sdo" =>
           /\ k > 1
           /\ op.env.dl = 0
           /\ xfer[k - 1].fn = "ecrt_master_sdo_download"
           /\ xfer[k - 1].index = xfer[k].index
           /\ xfer[k - 1].subindex = xfer[k].subindex
           /\ xfer[k - 1].data = xfer[k].data
           /\ xfer[k - 1].size = xfer[k].size
    /\ op.env.dl # 0 =>
         /\ NumCalls("ecrt_slave_config_sdo") = 0
         /\ sdo_config = op.pre.sdo_config

\* A write whose download fails on an object registered by an earlier write.
C1_Witness ==
  /\ IsWrite
  /\ op.env.dl # 0
  /\ op.pre.sdo_config[WrittenAddr] # <<>>
  /\ Len(xfer) = 1
  /\ ret = 0 - 1

\* C2: a write returns 0 exactly when the download and the registration both
\* succeed; when the download succeeds and the registration fails it returns
\* -1, the device holds the newly written value, and the only transport calls
\* are the download and the registration (nothing undoes the download).
C2_WriteResult ==
  IsWrite =>
    /\ (ret = 0) <=> (op.env.dl = 0 /\ op.env.cfg = 0)
    /\ (op.env.dl = 0 /\ op.env.cfg # 0) =>
         /\ ret = 0 - 1
         /\ Len(xfer) = 2
         /\ xfer[1].fn = "ecrt_master_sdo_download"
         /\ xfer[2].fn = "ecrt_slave_config_sdo"
         /\ od[WrittenAddr] = SubSeq(xfer[1].data, 1, xfer[1].size)
         /\ sdo_config = op.pre.sdo_config

\* A write that changed the device's value and failed to register it.
C2_Witness ==
  /\ IsWrite
  /\ op.env.dl = 0
  /\ op.env.cfg # 0
  /\ ret = 0 - 1
  /\ od[WrittenAddr] # op.pre.od[WrittenAddr]

\* C3: a read (lcec_read_sdo, lcec_read_idn) returns 0 exactly when the
\* transport reports no error and the number of bytes returned is the size
\* asked for; every other size, and every transport error, returns -1.
C3_ReadResult ==
  IsRead =>
    /\ (ret = 0) <=> (op.env.err = 0 /\ op.env.result_size = op.args.size)
    /\ ret \in {0, 0 - 1}

\* A read the transport answers without error and one byte too long.
C3_Witness ==
  /\ op.name = "read_sdo"
  /\ op.env.err = 0
  /\ op.env.result_size = op.args.size + 1
  /\ ret = 0 - 1

\* C8: a fixed-width write helper (lcec_write_sdo8/16/32) hands Write Parameter
\* a buffer of exactly 1, 2 or 4 bytes that holds the value least significant
\* byte first, so that reading the bytes in that order gives the value back.
C8_FixedWidthBytes ==
  op.name \in {"write_sdo8", "write_sdo16", "write_sdo32"} =>
    /\ Len(xfer) >= 1
    /\ xfer[1].fn = "ecrt_master_sdo_download"
    /\ xfer[1].size = op.args.width
    /\ Len(xfer[1].data) = op.args.width
    /\ \A i \in 1 .. op.args.width : xfer[1].data[i] \in 0 .. 255
    /\ xfer[1].data[1] = op.args.value % 256
    /\ EC_READ(SubSeq(xfer[1].data, 1, xfer[1].size)) = op.args.value

\* A 16-bit write of a value whose two bytes differ.
C8_Witness ==
  /\ op.name = "write_sdo16"
  /\ op.args.value = 4660
  /\ xfer[1].data = <<52, 18>>
  /\ ret = 0

\* C9: a modParam write (lcec_write_sdo8/16/32_modparam) makes the transport
\* calls, with the arguments, and returns the result that the fixed-width
\* helper of its width makes from the same state under the same transport
\* answers; the option name shows only in the diagnostic of a failure.
FixedWidthResult ==
  IF op.args.width = 1
    THEN lcec_write_sdo8(slave, op.pre, op.args.index, op.args.subindex, op.args.value, op.env)
  ELSE IF op.args.width = 2
    THEN lcec_write_sdo16(slave, op.pre, op.args.index, op.args.subindex, op.args.value, op.env)
  ELSE lcec_write_sdo32(slave, op.pre, op.args.index, op.args.subindex, op.args.value, op.env)

C9_ModparamSameAsFixedWidth ==
  op.name \in {"write_sdo8_modparam", "write_sdo16_modparam", "write_sdo32_modparam"} =>
    /\ xfer = FixedWidthResult.xfer
    /\ ret = FixedWidthResult.ret
    /\ od = FixedWidthResult.od
    /\ sdo_config = FixedWidthResult.sdo_config
    /\ msgs = IF ret = 0 THEN FixedWidthResult.msgs
              ELSE Append(FixedWidthResult.msgs, ModParamMsg(op.args.mpname))

\* A 16-bit modParam write whose registration fails.
C9_Witness ==
  /\ op.name = "write_sdo16_modparam"
  /\ op.env.dl = 0
  /\ op.env.cfg # 0
  /\ ret = 0 - 1
  /\ Len(xfer) = 2
  /\ Len(msgs) = 2

\* C10: no call retries: a read makes exactly one upload (or one drive
\* parameter read), a write at most one download and at most one registration,
\* whatever the transport answers, and every call returns 0 or -1.
C10_NoRetry ==
  op.name # "none" =>
    /\ ret \in {0, 0 - 1}
    /\ op.name = "read_sdo" => Len(xfer) = 1 /\ xfer[1].fn = "ecrt_master_sdo_upload"
    /\ op.name = "read_idn" => Len(xfer) = 1 /\ xfer[1].fn = "ecrt_master_read_idn"
    /\ IsWrite =>
         /\ NumCalls("ecrt_master_sdo_download") = 1
         /\ NumCalls("ecrt_slave_config_sdo") <= 1
         /\ Len(xfer) = NumCalls("ecrt_master_sdo_download") + NumCalls("ecrt_slave_config_sdo")

\* A read that timed out.
C10_Witness ==
  /\ op.name = "read_sdo"
  /\ op.env.err = 0 - 110
  /\ Len(xfer) = 1
  /\ ret = 0 - 1


(***************************************************************************)
(* Process image relay: copy_fsoe_data.                                    *)
(***************************************************************************)
\* The largest channel count of a safety mapping, and the relay calls in one run.
MaxChannels == 2
MaxCycles == 2
\* The payload lengths of a direction.
DataLens == {1, 2}

\* slave->fsoeConf: the empty tuple is the NULL pointer, a one-element tuple a
\* pointer to that LCEC_CONF_FSOE_T.
NoFsoeConf == <<>>

\* The FSoE frame length (lcec.h): a command byte, per channel the payload and
\* its CRC, and the connection id.
LCEC_FSOE_CMD_LEN == 1
LCEC_FSOE_CRC_LEN == 2
LCEC_FSOE_CONNID_LEN == 2
LCEC_FSOE_SIZE(ch_count, data_len) ==
  LCEC_FSOE_CMD_LEN + ch_count * (data_len + LCEC_FSOE_CRC_LEN) + LCEC_FSOE_CONNID_LEN

\* The process image holds four regions of the largest frame length: the
\* slave's two frames and the two mapped regions of the safety master.
PdSize == 4 * LCEC_FSOE_SIZE(MaxChannels, 2)
PdBytes == 0 .. (PdSize - 1)
\* The offsets the regions of the image start at.
Offsets == {0, PdSize \div 4, PdSize \div 2, (3 * PdSize) \div 4}

Range(start, n) == start .. (start + n - 1)

\* memcpy(&pd[dst], &pd[src], n) on an image: the n bytes at dst become the n
\* bytes at src. The ranges lie in the image and do not overlap.
memcpy(image, dst, src, n) ==
  [i \in DOMAIN image |-> IF i \in Range(dst, n) THEN image[src + (i - dst)] ELSE image[i]]

\* The first copy made in the wrong direction.
FsoeAfterSlaveCopy_reversed(image, slave_offset) ==
  IF fsoe_slave_offset # NULL
    THEN memcpy(image, slave_offset, fsoe_slave_offset,
                LCEC_FSOE_SIZE(fsoeConf[1].data_channels, fsoeConf[1].slave_data_len))
    ELSE image

\* The image between the two copies of copy_fsoe_data, and after them.
FsoeAfterSlaveCopy(image, slave_offset) ==
  IF fsoe_slave_offset # NULL
    THEN memcpy(image, fsoe_slave_offset, slave_offset,
                LCEC_FSOE_SIZE(fsoeConf[1].data_channels, fsoeConf[1].slave_data_len))
    ELSE image

\* The second copy made in the wrong direction.
FsoeAfterMasterCopy_reversed(image, master_offset) ==
  IF fsoe_master_offset # NULL
    THEN memcpy(image, fsoe_master_offset, master_offset,
                LCEC_FSOE_SIZE(fsoeConf[1].data_channels, fsoeConf[1].master_data_len))
    ELSE image

FsoeAfterMasterCopy(image, master_offset) ==
  IF fsoe_master_offset # NULL
    THEN memcpy(image, master_offset, fsoe_master_offset,
                LCEC_FSOE_SIZE(fsoeConf[1].data_channels, fsoeConf[1].master_data_len))
    ELSE image

\* void copy_fsoe_data(struct lcec_slave *slave, unsigned int slave_offset, unsigned int master_offset)
copy_fsoe_data(slave_offset, master_offset) ==
  LET mid == FsoeAfterSlaveCopy(pd, slave_offset) IN
  /\ IF fsoeConf = NoFsoeConf
       THEN /\ pd' = pd
            /\ cp' = [slave_offset |-> slave_offset, master_offset |-> master_offset,
                      pre |-> pd, mid |-> pd, n |-> cp.n + 1]
       ELSE /\ pd' = FsoeAfterMasterCopy(mid, master_offset)
            /\ cp' = [slave_offset |-> slave_offset, master_offset |-> master_offset,
                      pre |-> pd, mid |-> mid, n |-> cp.n + 1]
  /\ UNCHANGED <<fsoeConf, fsoe_slave_offset, fsoe_master_offset>>

\* The lengths of the two copies of a slave with a mapping.
SlaveCopyLen == LCEC_FSOE_SIZE(fsoeConf[1].data_channels, fsoeConf[1].slave_data_len)
MasterCopyLen == LCEC_FSOE_SIZE(fsoeConf[1].data_channels, fsoeConf[1].master_data_len)

Disjoint(a, n, b) == Range(a, n) \cap Range(b, n) = {}
Apart(a, n, b, m) == Range(a, n) \cap Range(b, m) = {}
InImage(a, n) == Range(a, n) \subseteq PdBytes

\* The mapping invariant (established at configuration time): the mapped regions
\* lie in the image for the full copy length, and each region of the image has
\* one owner, so the two mapped regions do not overlap.
MappingInBounds ==
  fsoeConf # NoFsoeConf =>
    /\ fsoe_slave_offset # NULL => InImage(fsoe_slave_offset, SlaveCopyLen)
    /\ fsoe_master_offset # NULL => InImage(fsoe_master_offset, MasterCopyLen)
    /\ (fsoe_slave_offset # NULL /\ fsoe_master_offset # NULL) =>
         Apart(fsoe_slave_offset, SlaveCopyLen, fsoe_master_offset, MasterCopyLen)

\* The offsets a caller passes: the slave's own two frames, inside the image
\* and overlapping neither each other nor a mapped region.
CallerOffsetsOk(slave_offset, master_offset) ==
  fsoeConf # NoFsoeConf =>
    /\ fsoe_slave_offset # NULL =>
         /\ InImage(slave_offset, SlaveCopyLen)
         /\ Disjoint(slave_offset, SlaveCopyLen, fsoe_slave_offset)
         /\ fsoe_master_offset # NULL =>
              Apart(slave_offset, SlaveCopyLen, fsoe_master_offset, MasterCopyLen)
    /\ fsoe_master_offset # NULL =>
         /\ InImage(master_offset, MasterCopyLen)
         /\ Disjoint(master_offset, MasterCopyLen, fsoe_master_offset)
         /\ fsoe_slave_offset # NULL =>
              /\ Apart(master_offset, MasterCopyLen, fsoe_slave_offset, SlaveCopyLen)
              /\ Apart(master_offset, MasterCopyLen, slave_offset, SlaveCopyLen)

\* One cycle's relay call on the slave.
DoCopyFsoeData ==
  \E slave_offset \in Offsets, master_offset \in Offsets :
    /\ cp.n < MaxCycles
    /\ CallerOffsetsOk(slave_offset, master_offset)
    /\ copy_fsoe_data(slave_offset, master_offset)
    /\ UNCHANGED nonFsoeVars

FsoeConfs ==
  {NoFsoeConf} \cup {<<c>> : c \in [data_channels : 1 .. MaxChannels, slave_data_len : DataLens,
                                    master_data_len : DataLens]}

NoCopy == [slave_offset |-> 0, master_offset |-> 0, pre |-> <<>>, mid |-> <<>>, n |-> 0]

\* The image before the first cycle: every byte differs from the others.
InitPd == [i \in PdBytes |-> i + 1]

FsoeIdle ==
  /\ pd = InitPd
  /\ fsoeConf = NoFsoeConf
  /\ fsoe_slave_offset = NULL
  /\ fsoe_master_offset = NULL
  /\ cp = NoCopy

FsoeInit ==
  /\ pd = InitPd
  /\ fsoeConf \in FsoeConfs
  /\ fsoe_slave_offset \in {NULL} \cup Offsets
  /\ fsoe_master_offset \in {NULL} \cup Offsets
  /\ MappingInBounds
  /\ cp = NoCopy

\* C6: one copy_fsoe_data call changes only bytes of its two destination
\* ranges, frame-length(C, s1) bytes at the mapping's slave-facing offset and
\* frame-length(C, s2) bytes at the caller's master offset; a slave with no
\* FSoE configuration leaves the whole image as it was.
SlaveDestRange ==
  IF fsoe_slave_offset # NULL THEN Range(fsoe_slave_offset, SlaveCopyLen) ELSE {}
MasterDestRange ==
  IF fsoe_master_offset # NULL THEN Range(cp.master_offset, MasterCopyLen) ELSE {}

C6_RelayFrame ==
  cp.n > 0 =>
    IF fsoeConf = NoFsoeConf
      THEN pd = cp.pre
      ELSE \A i \in PdBytes : pd[i] # cp.pre[i] => i \in SlaveDestRange \cup MasterDestRange

\* A call on a slave with both offsets mapped and frames of different lengths
\* that changed the image.
C6_Witness ==
  /\ cp.n > 0
  /\ fsoeConf # NoFsoeConf
  /\ fsoe_slave_offset # NULL
  /\ fsoe_master_offset # NULL
  /\ SlaveCopyLen # MasterCopyLen
  /\ \E i \in SlaveDestRange : pd[i] # cp.pre[i]
  /\ \E i \in MasterDestRange : pd[i] # cp.pre[i]
  /\ \E i \in PdBytes : pd[i] = cp.pre[i]

\* C16: the two copies are each made exactly when its mapping offset exists
\* and in its own direction. The first moves the frame at the caller's slave
\* offset to the mapping's slave-facing offset, and nothing else has moved
\* when the second runs; the second moves the frame at the mapping's
\* master-facing offset, as it is then, to the caller's master offset. After
\* the call each destination holds what its source held when its copy ran,
\* and an offset that does not exist leaves its copy out.
C16_RelayCopies ==
  (cp.n > 0 /\ fsoeConf # NoFsoeConf) =>
    /\ IF fsoe_slave_offset # NULL
         THEN /\ \A i \in 0 .. (SlaveCopyLen - 1) :
                   /\ cp.mid[fsoe_slave_offset + i] = cp.pre[cp.slave_offset + i]
                   /\ pd[fsoe_slave_offset + i] = cp.pre[cp.slave_offset + i]
              /\ \A i \in PdBytes \ Range(fsoe_slave_offset, SlaveCopyLen) :
                   cp.mid[i] = cp.pre[i]
         ELSE cp.mid = cp.pre
    /\ IF fsoe_master_offset # NULL
         THEN /\ \A i \in 0 .. (MasterCopyLen - 1) :
                   pd[cp.master_offset + i] = cp.mid[fsoe_master_offset + i]
              /\ \A i \in PdBytes \ Range(cp.master_offset, MasterCopyLen) :
                   pd[i] = cp.mid[i]
         ELSE pd = cp.mid

\* A slave with the slave-facing offset alone: the call made the first copy,
\* which changed the mapped region, and no second one.
C16_Witness ==
  /\ cp.n > 0
  /\ fsoeConf # NoFsoeConf
  /\ fsoe_slave_offset # NULL
  /\ fsoe_master_offset = NULL
  /\ pd = cp.mid
  /\ pd # cp.pre
  /\ \A i \in 0 .. (SlaveCopyLen - 1) : pd[fsoe_slave_offset + i] = cp.pre[cp.slave_offset + i]

(***************************************************************************)
(* Slave registry: lcec_slave_by_index.                                    *)
(***************************************************************************)
\* The largest number of slaves of a master, and the largest position index.
MaxSlaves == 3
MaxSlaveIndex == 3

\* for (slave = master->first_slave; slave != NULL; slave = slave->next): the
\* position in the list of the first slave from position k on whose index is
\* the one asked for, NULL when the list ends first.
RECURSIVE SlaveScan(_, _, _)
SlaveScan(list, k, index) ==
  IF k > Len(list) THEN NULL
  ELSE IF list[k].index = index THEN k
  ELSE SlaveScan(list, k + 1, index)

\* lcec_slave_by_index starting the scan at first_slave->next.
lcec_slave_by_index_skip_first(list, index) == SlaveScan(list, 2, index)

\* lcec_slave_t *lcec_slave_by_index(struct lcec_master *master, int index)
lcec_slave_by_index(list, index) == SlaveScan(list, 1, index)

\* A lookup by the setup code, for an index that may or may not be a slave's.
DoSlaveByIndex ==
  \E index \in (0 - 1) .. (MaxSlaveIndex + 1) :
    /\ found' = lcec_slave_by_index(first_slave, index)
    /\ lookup' = [index |-> index, pre |-> first_slave, done |-> TRUE]
    /\ UNCHANGED first_slave
    /\ UNCHANGED nonRegVars

\* The lists of slaves with pairwise distinct position indices.
SlaveLists ==
  UNION {{l \in [1 .. n -> [index : 0 .. MaxSlaveIndex]] :
            \A i, j \in 1 .. n : i # j => l[i].index # l[j].index} : n \in 0 .. MaxSlaves}

NoLookup == [index |-> NULL, pre |-> <<>>, done |-> FALSE]

RegIdle == first_slave = <<>> /\ found = NULL /\ lookup = NoLookup
RegInit == first_slave \in SlaveLists /\ found = NULL /\ lookup = NoLookup

\* C7: over a master whose N slaves have pairwise distinct indices (N = 0, 1,
\* many), the lookup returns the slave whose index is the one asked for when
\* there is one and NULL when there is none, and leaves the list as it was.
DistinctIndices(list) ==
  \A i, j \in 1 .. Len(list) : i # j => list[i].index # list[j].index

C7_SlaveLookup ==
  (lookup.done /\ DistinctIndices(lookup.pre)) =>
    /\ first_slave = lookup.pre
    /\ (\E k \in 1 .. Len(first_slave) : first_slave[k].index = lookup.index) =>
         /\ found # NULL
         /\ found \in 1 .. Len(first_slave)
         /\ first_slave[found].index = lookup.index
    /\ (\A k \in 1 .. Len(first_slave) : first_slave[k].index # lookup.index) =>
         found = NULL

\* The slave found is the last of three.
C7_Witness ==
  /\ lookup.done
  /\ Len(first_slave) = 3
  /\ found = 3
  /\ first_slave[3].index = lookup.index

(***************************************************************************)
(* Specifications.                                                         *)
(***************************************************************************)
SdoIdleOnSlave == slave = (CHOOSE s \in Slaves : s.index = 0) /\ SdoIdle

\* The descriptor builder.
Init == SyncsInit /\ SdoIdleOnSlave /\ FsoeIdle /\ RegIdle
Next == DoInit \/ DoAddSync \/ DoAddPdoInfo \/ DoAddPdoEntry
Spec == Init /\ [][Next]_vars

\* The configuration channel.
InitSdo == SyncsInit /\ SdoInit /\ FsoeIdle /\ RegIdle
NextSdo == SdoNext
SpecSdo == InitSdo /\ [][NextSdo]_vars

\* The fixed-width write helpers on values of every shape.
SpecWidth == InitSdo /\ [][WidthNext]_vars

\* The process image relay.
InitFsoe == SyncsInit /\ SdoIdleOnSlave /\ FsoeInit /\ RegIdle
NextFsoe == DoCopyFsoeData
SpecFsoe == InitFsoe /\ [][NextFsoe]_vars

\* The slave registry.
InitSlaves == SyncsInit /\ SdoIdleOnSlave /\ FsoeIdle /\ RegInit
NextSlaves == DoSlaveByIndex
SpecSlaves == InitSlaves /\ [][NextSlaves]_vars

====
